---- MODULE Spec2Model ----
(***************************************************************************)
(* Model of the CNPG Velero plugin: the backup item action that stamps     *)
(* annotations on a Cluster resource (internal/plugin/backuppluginv2.go)   *)
(* and the restore item action that rewrites the resource for recovery     *)
(* (restorepluginv2.go, in its two revisions: the server-side Apply        *)
(* revision and the Create-then-Update revision of the ConfigMap upsert).  *)
(*                                                                         *)
(* A resource document (map[string]interface{}) is a record.  A field that *)
(* may be absent or of the wrong dynamic type carries its shape next to    *)
(* its content: metadata/spec/annotations/plugins hold "absent", "notmap"  *)
(* ("notlist") or "map" ("list"); a scalar holds Absent, NonString or the  *)
(* string itself.                                                          *)
(***************************************************************************)
EXTENDS Integers, Sequences, FiniteSets, TLC

VARIABLES doc, now, configMaps, last, prev, nops, budget, race

vars == <<doc, now, configMaps, last, prev, nops, budget, race>>

-----------------------------------------------------------------------------
(* Bounds of the model *)

\* invocations in a lifecycle run (backup, restore, backup, ...)
MaxOps == 3
\* invocations on a document of the wide (malformed shapes) family
WideOps == 1
\* last clock reading, in ticks
MaxClock == 3
\* ticks per wall-clock second (sub-second readings exist)
TicksPerSecond == 2

-----------------------------------------------------------------------------
(* Program constants *)

AnnotationServerName == "velero-cnpg/serverName"

AnnotationCurrentBackupID == "velero-cnpg/current-backup-id"

\* the backup id key of the annotation namespace of the earlier revision
RestoreBackupIDKey_Legacy == "cnpg.io/current-backup-id"

\* the literal key Execute of the restore plugin reads the backup id from
RestoreBackupIDKey == "velero-cnpg/current-backup-id"

ConfigMapName == "cnpg-velero-override"

ExternalClusterName == "clusterBackup"

BarmanPluginName == "barman-cloud.cloudnative-pg.io"

CompletedPhase == "completed"

EphemeralMetadataFields ==
    {"resourceVersion", "uid", "generation", "creationTimestamp", "managedFields"}

-----------------------------------------------------------------------------
(* Dynamic values *)

\* a key that is not in its map
Absent == "<absent>"

\* a value whose dynamic type is not string (a number, a bool, a map)
NonString == "<nonstring>"

IsString(v) == v # Absent /\ v # NonString

EmptyMap == [k \in {} |-> ""]

\* m[k] = v of a Go map
SetKey(m, k, v) == [x \in (DOMAIN m) \cup {k} |-> IF x = k THEN v ELSE m[x]]

\* v, found := m[k]
Lookup(m, k) == IF k \in DOMAIN m THEN m[k] ELSE Absent

-----------------------------------------------------------------------------
(* Identity generator *)

Pad2(n) == IF n < 10 THEN "0" \o ToString(n) ELSE ToString(n)

\* a timestamp of minute granularity, "20060102-1504"
FormatTimestamp_Minutes(t) ==
    LET secs == (13 * 3600 + 54 * 60) + (t \div TicksPerSecond)
    IN  "20251013-" \o Pad2(secs \div 3600) \o Pad2((secs \div 60) % 60)

\* time.Now().Format("20060102-150405") of a reading t ticks after
\* 2025-10-13T13:54:00, within that day
FormatTimestamp(t) ==
    LET secs == (13 * 3600 + 54 * 60) + (t \div TicksPerSecond)
    IN  "20251013-" \o Pad2(secs \div 3600) \o Pad2((secs \div 60) % 60) \o Pad2(secs % 60)

generateNewServerName(clusterName, t) == clusterName \o "-" \o FormatTimestamp(t)

-----------------------------------------------------------------------------
(* Annotation codec *)

\* getAnnotation failing on a resource without metadata, as addAnnotation does
getAnnotation_NoMetadataFails(d, key) ==
    IF d.metadata = "absent"
    THEN [value |-> "", found |-> FALSE, err |-> "metadata field not found"]
    ELSE IF d.metadata # "map"
    THEN [value |-> "", found |-> FALSE, err |-> "metadata is not a map"]
    ELSE IF d.annotations = "absent" THEN [value |-> "", found |-> FALSE, err |-> ""]
    ELSE IF d.annotations # "map"
    THEN [value |-> "", found |-> FALSE, err |-> "annotations is not a map"]
    ELSE IF key \notin DOMAIN d.ann THEN [value |-> "", found |-> FALSE, err |-> ""]
    ELSE IF ~IsString(d.ann[key])
    THEN [value |-> "", found |-> FALSE, err |-> "annotation value is not a string"]
    ELSE [value |-> d.ann[key], found |-> TRUE, err |-> ""]

\* RestorePluginV2.getAnnotation: (value, found, err)
getAnnotation(d, key) ==
    IF d.metadata = "absent" THEN [value |-> "", found |-> FALSE, err |-> ""]
    ELSE IF d.metadata # "map"
    THEN [value |-> "", found |-> FALSE, err |-> "metadata is not a map"]
    ELSE IF d.annotations = "absent" THEN [value |-> "", found |-> FALSE, err |-> ""]
    ELSE IF d.annotations # "map"
    THEN [value |-> "", found |-> FALSE, err |-> "annotations is not a map"]
    ELSE IF key \notin DOMAIN d.ann THEN [value |-> "", found |-> FALSE, err |-> ""]
    ELSE IF ~IsString(d.ann[key])
    THEN [value |-> "", found |-> FALSE, err |-> "annotation value is not a string"]
    ELSE [value |-> d.ann[key], found |-> TRUE, err |-> ""]

\* addAnnotation appending the value to the value the key already holds
addAnnotation_Appends(d, key, value) ==
    IF d.metadata = "absent" THEN [doc |-> d, err |-> "metadata field not found"]
    ELSE IF d.metadata # "map" THEN [doc |-> d, err |-> "metadata is not a map"]
    ELSE IF d.annotations = "notmap" THEN [doc |-> d, err |-> "annotations is not a map"]
    ELSE LET old == IF d.annotations = "absent" THEN EmptyMap ELSE d.ann
         IN  [doc |-> [d EXCEPT !.annotations = "map",
                                !.ann = SetKey(old, key,
                                               IF key \in DOMAIN old /\ IsString(old[key])
                                               THEN old[key] \o "," \o value ELSE value)],
              err |-> ""]

\* addAnnotation without the creation of the annotations map
addAnnotation_NoCreate(d, key, value) ==
    IF d.metadata = "absent" THEN [doc |-> d, err |-> "metadata field not found"]
    ELSE IF d.metadata # "map" THEN [doc |-> d, err |-> "metadata is not a map"]
    ELSE IF d.annotations # "map" THEN [doc |-> d, err |-> "annotations is not a map"]
    ELSE [doc |-> [d EXCEPT !.ann = SetKey(d.ann, key, value)], err |-> ""]

\* addAnnotation building the annotations map anew on every call
addAnnotation_Fresh(d, key, value) ==
    IF d.metadata = "absent" THEN [doc |-> d, err |-> "metadata field not found"]
    ELSE IF d.metadata # "map" THEN [doc |-> d, err |-> "metadata is not a map"]
    ELSE IF d.annotations = "notmap" THEN [doc |-> d, err |-> "annotations is not a map"]
    ELSE [doc |-> [d EXCEPT !.annotations = "map", !.ann = SetKey(EmptyMap, key, value)],
          err |-> ""]

\* BackupPluginV2.addAnnotation: the document after the call and the error
addAnnotation(d, key, value) ==
    IF d.metadata = "absent" THEN [doc |-> d, err |-> "metadata field not found"]
    ELSE IF d.metadata # "map" THEN [doc |-> d, err |-> "metadata is not a map"]
    ELSE IF d.annotations = "notmap" THEN [doc |-> d, err |-> "annotations is not a map"]
    ELSE [doc |-> [d EXCEPT !.annotations = "map",
                            !.ann = SetKey(IF d.annotations = "absent" THEN EmptyMap ELSE d.ann,
                                           key, value)],
          err |-> ""]

-----------------------------------------------------------------------------
(* Parameter extractors *)

\* the parameters map of a plugin block, if the block and it are maps
HasParams(b) == b.kind = "map" /\ b.parameters = "map"

RECURSIVE ScanServerName(_, _)
\* the loop of extractPluginParameters from block i on
ScanServerName(l, i) ==
    IF i > Len(l) THEN ""
    ELSE IF HasParams(l[i]) /\ IsString(Lookup(l[i].params, "serverName"))
    THEN l[i].params["serverName"]
    ELSE ScanServerName(l, i + 1)

\* extractPluginParameters taking a resource without spec for one without
\* plugins
extractPluginParameters_NoSpecOk(d) ==
    IF d.spec = "absent" THEN [serverName |-> "", err |-> ""]
    ELSE IF d.spec # "map" THEN [serverName |-> "", err |-> "spec is not a map"]
    ELSE IF d.plugins = "absent" THEN [serverName |-> "", err |-> ""]
    ELSE IF d.plugins # "list" THEN [serverName |-> "", err |-> "plugins is not a list"]
    ELSE [serverName |-> ScanServerName(d.pluginsList, 1), err |-> ""]

\* BackupPluginV2.extractPluginParameters: (serverName, err)
extractPluginParameters(d) ==
    IF d.spec = "absent" THEN [serverName |-> "", err |-> "spec field not found"]
    ELSE IF d.spec # "map" THEN [serverName |-> "", err |-> "spec is not a map"]
    ELSE IF d.plugins = "absent" THEN [serverName |-> "", err |-> ""]
    ELSE IF d.plugins # "list" THEN [serverName |-> "", err |-> "plugins is not a list"]
    ELSE [serverName |-> ScanServerName(d.pluginsList, 1), err |-> ""]

RECURSIVE ScanBarmanObjectName(_, _)
\* the loop of extractBarmanObjectName from block i on; Absent when it ends
ScanBarmanObjectName(l, i) ==
    IF i > Len(l) THEN Absent
    ELSE IF HasParams(l[i]) /\ IsString(Lookup(l[i].params, "barmanObjectName"))
    THEN l[i].params["barmanObjectName"]
    ELSE ScanBarmanObjectName(l, i + 1)

\* extractBarmanObjectName taking a plugins field that is not a list for a
\* resource without plugins parameters
extractBarmanObjectName_Lenient(d) ==
    IF d.spec = "absent" THEN [value |-> "", err |-> "spec field not found"]
    ELSE IF d.spec # "map" THEN [value |-> "", err |-> "spec is not a map"]
    ELSE IF d.plugins = "absent" THEN [value |-> "", err |-> "no plugins found in spec"]
    ELSE IF d.plugins # "list" THEN [value |-> "", err |-> ""]
    ELSE LET bon == ScanBarmanObjectName(d.pluginsList, 1)
         IN  IF bon = Absent
             THEN [value |-> "", err |-> "barmanObjectName not found in plugin parameters"]
             ELSE [value |-> bon, err |-> ""]

\* RestorePluginV2.extractBarmanObjectName: (barmanObjectName, err)
extractBarmanObjectName(d) ==
    IF d.spec = "absent" THEN [value |-> "", err |-> "spec field not found"]
    ELSE IF d.spec # "map" THEN [value |-> "", err |-> "spec is not a map"]
    ELSE IF d.plugins = "absent" THEN [value |-> "", err |-> "no plugins found in spec"]
    ELSE IF d.plugins # "list" THEN [value |-> "", err |-> "plugins is not a list"]
    ELSE LET bon == ScanBarmanObjectName(d.pluginsList, 1)
         IN  IF bon = Absent
             THEN [value |-> "", err |-> "barmanObjectName not found in plugin parameters"]
             ELSE [value |-> bon, err |-> ""]

-----------------------------------------------------------------------------
(* Spec rewriter *)

\* removeEphemeralFields without the delete of managedFields
removeEphemeralFields_KeepsManagedFields(d) ==
    IF d.metadata = "map"
    THEN [d EXCEPT !.status = FALSE,
                   !.ephemeral = d.ephemeral \ {"resourceVersion", "uid", "generation",
                                                "creationTimestamp"}]
    ELSE [d EXCEPT !.status = FALSE]

\* stripping that takes the annotations with the ephemeral metadata
removeEphemeralFields_DropsAnnotations(d) ==
    [d EXCEPT !.status = FALSE, !.ephemeral = {},
              !.annotations = IF d.metadata = "map" THEN "absent" ELSE @,
              !.ann = IF d.metadata = "map" THEN EmptyMap ELSE @]

\* RestorePluginV2.removeEphemeralFields
removeEphemeralFields(d) ==
    IF d.metadata = "map"
    THEN [d EXCEPT !.status = FALSE,
                   !.ephemeral = d.ephemeral \ {"resourceVersion", "uid", "generation",
                                                "creationTimestamp", "managedFields"}]
    ELSE [d EXCEPT !.status = FALSE]

\* the body of the loop setting serverName in every parameters map
RotateBlock_Adds(b, newServerName) ==
    IF HasParams(b)
    THEN [b EXCEPT !.params = SetKey(b.params, "serverName", newServerName)]
    ELSE b

\* the body of the loop of updatePluginServerName on one block
RotateBlock(b, newServerName) ==
    IF HasParams(b) /\ "serverName" \in DOMAIN b.params
    THEN [b EXCEPT !.params = SetKey(b.params, "serverName", newServerName)]
    ELSE b

\* RestorePluginV2.updatePluginServerName
\* the rotation failing when no plugin block declares a serverName
updatePluginServerName_Strict(d, newServerName) ==
    IF d.spec = "absent" THEN [doc |-> d, err |-> "spec field not found"]
    ELSE IF d.spec # "map" THEN [doc |-> d, err |-> "spec is not a map"]
    ELSE IF d.plugins = "absent" THEN [doc |-> d, err |-> ""]
    ELSE IF d.plugins # "list" THEN [doc |-> d, err |-> "plugins is not a list"]
    ELSE IF \A i \in 1..Len(d.pluginsList) :
               ~(HasParams(d.pluginsList[i]) /\ "serverName" \in DOMAIN d.pluginsList[i].params)
    THEN [doc |-> d, err |-> "serverName not found in plugin parameters"]
    ELSE [doc |-> [d EXCEPT !.pluginsList =
                      [i \in 1..Len(d.pluginsList) |-> RotateBlock(d.pluginsList[i], newServerName)]],
          err |-> ""]

updatePluginServerName(d, newServerName) ==
    IF d.spec = "absent" THEN [doc |-> d, err |-> "spec field not found"]
    ELSE IF d.spec # "map" THEN [doc |-> d, err |-> "spec is not a map"]
    ELSE IF d.plugins = "absent" THEN [doc |-> d, err |-> ""]
    ELSE IF d.plugins # "list" THEN [doc |-> d, err |-> "plugins is not a list"]
    ELSE [doc |-> [d EXCEPT !.pluginsList =
                      [i \in 1..Len(d.pluginsList) |-> RotateBlock(d.pluginsList[i], newServerName)]],
          err |-> ""]

\* the entry with the two parameters exchanged
ExternalClusterEntry_Swapped(serverName, barmanObjectName) ==
    [name |-> ExternalClusterName, plugin |-> BarmanPluginName,
     barmanObjectName |-> serverName, serverName |-> barmanObjectName]

\* the single entry configureExternalCluster synthesizes
ExternalClusterEntry(serverName, barmanObjectName) ==
    [name |-> ExternalClusterName, plugin |-> BarmanPluginName,
     barmanObjectName |-> barmanObjectName, serverName |-> serverName]

\* configureExternalCluster appending its entry to the entries of the resource
configureExternalCluster_Append(d, serverName, barmanObjectName) ==
    IF d.spec = "absent" THEN [doc |-> d, err |-> "spec field not found"]
    ELSE IF d.spec # "map" THEN [doc |-> d, err |-> "spec is not a map"]
    ELSE [doc |-> [d EXCEPT !.externalClusters =
                      [present |-> TRUE,
                       list |-> Append(d.externalClusters.list,
                                       ExternalClusterEntry(serverName, barmanObjectName))]],
          err |-> ""]

\* RestorePluginV2.configureExternalCluster
configureExternalCluster(d, serverName, barmanObjectName) ==
    IF d.spec = "absent" THEN [doc |-> d, err |-> "spec field not found"]
    ELSE IF d.spec # "map" THEN [doc |-> d, err |-> "spec is not a map"]
    ELSE [doc |-> [d EXCEPT !.externalClusters =
                      [present |-> TRUE,
                       list |-> <<ExternalClusterEntry(serverName, barmanObjectName)>>]],
          err |-> ""]

\* configureBootstrapRecovery as in the revision without recoveryTarget
configureBootstrapRecovery_NoTarget(d, backupID) ==
    IF d.spec = "absent" THEN [doc |-> d, err |-> "spec field not found"]
    ELSE IF d.spec # "map" THEN [doc |-> d, err |-> "spec is not a map"]
    ELSE [doc |-> [d EXCEPT !.bootstrap =
                      [kind |-> "recovery", source |-> ExternalClusterName,
                       backupID |-> Absent]],
          err |-> ""]

\* RestorePluginV2.configureBootstrapRecovery (the revision with backupID)
configureBootstrapRecovery(d, backupID) ==
    IF d.spec = "absent" THEN [doc |-> d, err |-> "spec field not found"]
    ELSE IF d.spec # "map" THEN [doc |-> d, err |-> "spec is not a map"]
    ELSE [doc |-> [d EXCEPT !.bootstrap =
                      [kind |-> "recovery", source |-> ExternalClusterName,
                       backupID |-> IF backupID # "" THEN backupID ELSE Absent]],
          err |-> ""]

-----------------------------------------------------------------------------
(* Backup-ID resolver *)

\* the filter without the test of spec.cluster.name
IsCompletedFor_AnyCluster(b, clusterName) == b.phase = CompletedPhase

\* the filter of getLatestCompletedBackupID: the backup references the
\* cluster and its status phase is the completed literal
IsCompletedFor(b, clusterName) == b.cluster = clusterName /\ b.phase = CompletedPhase

\* the positions sort.Slice (not stable) may leave first: any completed
\* backup of the cluster with no completed backup of the cluster after it
LatestPositions(list, clusterName) ==
    {i \in 1..Len(list) :
        /\ IsCompletedFor(list[i], clusterName)
        /\ \A j \in 1..Len(list) :
              IsCompletedFor(list[j], clusterName) => list[j].created <= list[i].created}

\* getLatestCompletedBackupID passing over completed backups without a string
\* backupId and taking the latest of the others
getLatestCompletedBackupID_SkipMalformed(api, list, clusterName) ==
    LET usable == SelectSeq(list, LAMBDA b : IsString(b.backupId))
    IN  IF api = "clientErr" THEN {[backupID |-> "", err |-> "failed to create dynamic client"]}
        ELSE IF api = "listErr"
        THEN {[backupID |-> "", err |-> "failed to list CNPG backup resources"]}
        ELSE IF LatestPositions(usable, clusterName) = {} THEN {[backupID |-> "", err |-> ""]}
        ELSE {[backupID |-> usable[i].backupId, err |-> ""] :
                 i \in LatestPositions(usable, clusterName)}

\* BackupPluginV2.getLatestCompletedBackupID: the (backupID, err) results
\* the call can produce; api is the outcome of GetDynamicClient and List
getLatestCompletedBackupID(api, list, clusterName) ==
    IF api = "clientErr" THEN {[backupID |-> "", err |-> "failed to create dynamic client"]}
    ELSE IF api = "listErr" THEN {[backupID |-> "", err |-> "failed to list CNPG backup resources"]}
    ELSE IF LatestPositions(list, clusterName) = {} THEN {[backupID |-> "", err |-> ""]}
    ELSE {IF list[i].backupId = Absent
             THEN [backupID |-> "", err |-> "backupId not found in latest backup status"]
          ELSE IF list[i].backupId = NonString
             THEN [backupID |-> "", err |-> "backupId is not a string"]
          ELSE [backupID |-> list[i].backupId, err |-> ""]
          : i \in LatestPositions(list, clusterName)}

-----------------------------------------------------------------------------
(* resourceName, evaluated for the first log line of every Execute *)

\* TRUE when metadataMap["name"].(string) panics
resourceNamePanics(d) == d.metadata = "map" /\ ~IsString(d.name)

-----------------------------------------------------------------------------
(* Auxiliary config object *)

\* the Data with the two server names exchanged
configMapData_Swapped(writeServerName, readServerName) ==
    [write_to_server_name |-> readServerName, read_from_server_name |-> writeServerName]

\* the Data of the cnpg-velero-override ConfigMap both revisions write
configMapData(writeServerName, readServerName) ==
    [write_to_server_name |-> writeServerName, read_from_server_name |-> readServerName]

\* the annotations both revisions give the ConfigMap
ConfigMapAnnotations == [k \in {"helm.sh/resource-policy"} |-> "keep"]

\* the ConfigMap both revisions send: its name, annotations and Data
ConfigMapObject(writeServerName, readServerName) ==
    [name |-> ConfigMapName,
     annotations |-> ConfigMapAnnotations,
     data |-> configMapData(writeServerName, readServerName)]

\* the outcomes of GetClient and of the API call as the cluster decides them:
\* the request is applied, GetClient fails, the server rejects the request,
\* or the 30 second budget ends after the server applied the request
ApplyOutcomes == {"ok", "clientErr", "apiErr", "timeoutApplied"}

\* createOrUpdateConfigMap logging the failure of the Apply and returning nil
createOrUpdateConfigMap_Swallow(cms, outcome, namespace, writeServerName, readServerName) ==
    IF outcome \in {"clientErr", "apiErr"}
    THEN [configMaps |-> cms, err |-> ""]
    ELSE [configMaps |-> SetKey(cms, namespace, ConfigMapObject(writeServerName, readServerName)),
          err |-> ""]

\* RestorePluginV2.createOrUpdateConfigMap (server-side Apply revision): the
\* ConfigMaps of the cluster, by namespace, after the call, and the error
createOrUpdateConfigMap(cms, outcome, namespace, writeServerName, readServerName) ==
    IF outcome = "clientErr"
    THEN [configMaps |-> cms, err |-> "failed to get Kubernetes client"]
    ELSE IF outcome = "apiErr"
    THEN [configMaps |-> cms, err |-> "failed to apply ConfigMap"]
    ELSE [configMaps |-> SetKey(cms, namespace, ConfigMapObject(writeServerName, readServerName)),
          err |-> IF outcome = "ok" THEN "" ELSE "failed to apply ConfigMap"]

-----------------------------------------------------------------------------
(* Execute of the restore plugin *)

\* the record an invocation leaves: what it was given, what it decided and
\* how it ended ("ok": a document is returned, "error": an error is
\* returned, "panic": the invocation terminated abnormally)
Result(op, outcome, err, in, out, cms) ==
    [op |-> op, outcome |-> outcome, err |-> err, in |-> in, doc |-> out,
     configMaps |-> cms, path |-> "none", serverName |-> "", barmanObjectName |-> "",
     backupID |-> "", newServerName |-> "", upsert |-> "none", lookup |-> "none",
     api |-> "none", list |-> <<>>]

\* the rewrite steps of Execute after the ConfigMap upsert
RewriteSteps(d, serverName, barmanObjectName, backupID, newServerName) ==
    LET stripped == removeEphemeralFields(d)
        rotated  == updatePluginServerName(stripped, newServerName)
        external == configureExternalCluster(rotated.doc, serverName, barmanObjectName)
        boot     == configureBootstrapRecovery(external.doc, backupID)
    IN  IF rotated.err # "" THEN [doc |-> rotated.doc, err |-> "failed to update plugin serverName"]
        ELSE IF external.err # ""
        THEN [doc |-> external.doc, err |-> "failed to configure external cluster"]
        ELSE IF boot.err # ""
        THEN [doc |-> boot.doc, err |-> "failed to configure bootstrap recovery"]
        ELSE [doc |-> boot.doc, err |-> ""]

\* RestorePluginV2.Execute on document d, with clock reading t and the
\* outcome the cluster gives to the ConfigMap upsert
RestoreExecute(d, cms, t, outcome) ==
    LET R(o, e, out, c) == [Result("restore", o, e, d, out, c) EXCEPT !.api = outcome]
        sn  == getAnnotation(d, AnnotationServerName)
        bid == getAnnotation(d, RestoreBackupIDKey)
        bon == extractBarmanObjectName(d)
        newServerName == generateNewServerName(d.name, t)
        cm  == createOrUpdateConfigMap(cms, outcome, d.namespace, newServerName, sn.value)
        rw  == RewriteSteps(d, sn.value, bon.value, bid.value, newServerName)
        rec == [R("error", "", d, cms) EXCEPT
                   !.path = "recoverable", !.serverName = sn.value]
    IN  IF resourceNamePanics(d) THEN R("panic", "", d, cms)
        ELSE IF sn.err # "" THEN R("error", "failed to get serverName annotation", d, cms)
        ELSE IF ~sn.found THEN [R("ok", "", d, cms) EXCEPT !.path = "fresh"]
        ELSE IF bid.err # "" THEN [rec EXCEPT !.err = "failed to get backup ID annotation"]
        ELSE IF bon.err # ""
        THEN [rec EXCEPT !.err = "failed to extract barmanObjectName from plugin parameters"]
        ELSE IF d.metadata = "absent" THEN [rec EXCEPT !.err = "metadata not found"]
        ELSE IF d.metadata # "map" THEN [rec EXCEPT !.err = "metadata is not a map"]
        ELSE IF d.name = Absent THEN [rec EXCEPT !.err = "cluster name not found in metadata"]
        ELSE IF d.name = NonString THEN [rec EXCEPT !.err = "cluster name is not a string"]
        ELSE IF ~IsString(d.namespace)
        THEN [rec EXCEPT !.outcome = "panic", !.barmanObjectName = bon.value,
                         !.backupID = bid.value, !.newServerName = newServerName]
        ELSE IF cm.err # ""
        THEN [rec EXCEPT !.err = "failed to create/update ConfigMap",
                         !.configMaps = cm.configMaps,
                         !.barmanObjectName = bon.value, !.backupID = bid.value,
                         !.newServerName = newServerName,
                         !.upsert = IF outcome = "timeoutApplied" THEN "applied" ELSE "failed"]
        ELSE [rec EXCEPT !.outcome = IF rw.err = "" THEN "ok" ELSE "error",
                         !.err = rw.err, !.doc = rw.doc, !.configMaps = cm.configMaps,
                         !.barmanObjectName = bon.value, !.backupID = bid.value,
                         !.newServerName = newServerName, !.upsert = "applied"]

-----------------------------------------------------------------------------
(* Execute of the backup plugin *)

\* the outcomes of GetDynamicClient and List as the cluster decides them
ListOutcomes == {"ok", "clientErr", "listErr"}

\* BackupPluginV2.Execute on document d: the results it can produce, given
\* the outcome of the API calls and the Backup records the List returns
BackupExecute(d, cms, api, list) ==
    LET R(o, e, out) == [Result("backup", o, e, d, out, cms) EXCEPT !.api = api, !.list = list]
        ex == extractPluginParameters(d)
        a1 == addAnnotation(d, AnnotationServerName, ex.serverName)
        namespace   == IF IsString(a1.doc.namespace) THEN a1.doc.namespace ELSE ""
        clusterName == IF IsString(a1.doc.name) THEN a1.doc.name ELSE ""
        done(out, look, id) ==
            [R("ok", "", out) EXCEPT !.serverName = ex.serverName,
                                     !.lookup = look, !.backupID = id]
    IN  IF resourceNamePanics(d) THEN {R("panic", "", d)}
        ELSE IF ex.err # "" THEN {R("error", ex.err, d)}
        ELSE IF ex.serverName = "" THEN {R("ok", "", d)}
        ELSE IF a1.err # "" THEN {[R("error", a1.err, d) EXCEPT !.serverName = ex.serverName]}
        ELSE IF a1.doc.metadata # "map" \/ namespace = "" \/ clusterName = ""
        THEN {done(a1.doc, "skipped", "")}
        ELSE {IF r.err # "" THEN done(a1.doc, "failed", "")
              ELSE IF r.backupID = "" THEN done(a1.doc, "empty", "")
              ELSE LET a2 == addAnnotation(a1.doc, AnnotationCurrentBackupID, r.backupID)
                   IN  IF a2.err # "" THEN done(a1.doc, "failed", "")
                       ELSE done(a2.doc, "found", r.backupID)
              : r \in getLatestCompletedBackupID(api, list, clusterName)}

-----------------------------------------------------------------------------
(* Documents the plugins are invoked on *)

Block(params) == [kind |-> "map", parameters |-> "map", params |-> params]

NotMapBlock == [kind |-> "notmap", parameters |-> "absent", params |-> EmptyMap]

NoParamsBlock == [kind |-> "map", parameters |-> "absent", params |-> EmptyMap]

ParamsNotMapBlock == [kind |-> "map", parameters |-> "notmap", params |-> EmptyMap]

NoBootstrap == [kind |-> "absent", source |-> Absent, backupID |-> Absent]

InitDB == [kind |-> "initdb", source |-> Absent, backupID |-> Absent]

NoExternalClusters == [present |-> FALSE, list |-> <<>>]

\* an externalClusters list a resource may carry before the rewrite
PriorExternalClusters ==
    [present |-> TRUE,
     list |-> <<[name |-> "origin", plugin |-> BarmanPluginName,
                 barmanObjectName |-> "store-z", serverName |-> "cnpg-0"]>>]

\* metadata shapes: (metadata, name, namespace, annotations, ann)
Meta(name, namespace, annotations, ann) ==
    [metadata |-> "map", name |-> name, namespace |-> namespace,
     annotations |-> annotations, ann |-> ann]

NoMeta(kind) ==
    [metadata |-> kind, name |-> Absent, namespace |-> Absent,
     annotations |-> "absent", ann |-> EmptyMap]

\* spec shapes: (spec, plugins, pluginsList, bootstrap, externalClusters)
SpecOf(plugins, pluginsList, bootstrap, externalClusters) ==
    [spec |-> "map", plugins |-> plugins, pluginsList |-> pluginsList,
     bootstrap |-> bootstrap, externalClusters |-> externalClusters]

NoSpec(kind) ==
    [spec |-> kind, plugins |-> "absent", pluginsList |-> <<>>,
     bootstrap |-> NoBootstrap, externalClusters |-> NoExternalClusters]

\* every resource also carries its apiVersion and, in a spec mapping, fields
\* no plugin reads (instances)
MkDoc(status, ephemeral, m, sp) ==
    [apiVersion |-> "postgresql.cnpg.io/v1",
     instances |-> IF sp.spec = "map" THEN "3" ELSE Absent,
     status |-> status, ephemeral |-> IF m.metadata = "map" THEN ephemeral ELSE {},
     metadata |-> m.metadata, name |-> m.name, namespace |-> m.namespace,
     annotations |-> m.annotations, ann |-> m.ann,
     spec |-> sp.spec, plugins |-> sp.plugins, pluginsList |-> sp.pluginsList,
     bootstrap |-> sp.bootstrap, externalClusters |-> sp.externalClusters]

\* annotation maps a resource may carry
AnnMaps ==
    { EmptyMap,
      [k \in {"other"} |-> "x"],
      [k \in {AnnotationServerName} |-> "cnpg-1"],
      [k \in {AnnotationServerName, AnnotationCurrentBackupID} |->
          IF k = AnnotationServerName THEN "cnpg-1" ELSE "b0"],
      [k \in {AnnotationServerName} |-> NonString],
      [k \in {AnnotationServerName, AnnotationCurrentBackupID} |->
          IF k = AnnotationServerName THEN "cnpg-1" ELSE NonString],
      [k \in {AnnotationServerName, AnnotationCurrentBackupID} |->
          IF k = AnnotationServerName THEN "cnpg-1" ELSE ""],
      [k \in {AnnotationCurrentBackupID, "other"} |->
          IF k = AnnotationCurrentBackupID THEN "b0" ELSE "x"] }

WideMetas ==
    {NoMeta("absent"), NoMeta("notmap")}
    \cup {Meta(nn[1], nn[2], "map", a) :
            nn \in {<<"pg", "ns">>, <<Absent, "ns">>, <<"pg", Absent>>, <<NonString, "ns">>,
                    <<"pg", NonString>>, <<"", "ns">>, <<"pg", "">>},
            a \in AnnMaps}
    \cup {Meta("pg", "ns", k, EmptyMap) : k \in {"absent", "notmap"}}

FewMetas ==
    { Meta("pg", "ns", "absent", EmptyMap),
      Meta("pg", "ns", "map", [k \in {AnnotationServerName} |-> "cnpg-1"]),
      Meta("pg", "ns", "map",
           [k \in {AnnotationServerName, AnnotationCurrentBackupID} |->
               IF k = AnnotationServerName THEN "cnpg-1" ELSE "b0"]) }

\* plugin blocks a resource may carry
Blocks ==
    { NotMapBlock, NoParamsBlock, ParamsNotMapBlock, Block(EmptyMap),
      Block([serverName |-> "cnpg-1", barmanObjectName |-> "store-a"]),
      Block([serverName |-> "cnpg-2", barmanObjectName |-> "store-b"]),
      Block([serverName |-> "cnpg-1"]),
      Block([barmanObjectName |-> "store-b"]),
      Block([serverName |-> "", barmanObjectName |-> ""]),
      Block([serverName |-> NonString, barmanObjectName |-> NonString]) }

PluginLists == {<<>>} \cup {<<b>> : b \in Blocks} \cup {<<b, c>> : b, c \in Blocks}

WideSpecs ==
    {NoSpec("absent"), NoSpec("notmap")}
    \cup {SpecOf("absent", <<>>, InitDB, NoExternalClusters),
          SpecOf("notlist", <<>>, InitDB, NoExternalClusters)}
    \cup {SpecOf("list", l, InitDB, PriorExternalClusters) : l \in PluginLists}

FewSpecs ==
    { SpecOf("absent", <<>>, NoBootstrap, NoExternalClusters),
      SpecOf("list", <<Block([serverName |-> "cnpg-1", barmanObjectName |-> "store-a"])>>,
             InitDB, NoExternalClusters),
      SpecOf("list", <<Block([serverName |-> "cnpg-1"]), Block([barmanObjectName |-> "store-b"])>>,
             InitDB, PriorExternalClusters) }

\* resources of any shape, each invoked on WideOps times
WideDocs ==
    {MkDoc(TRUE, EphemeralMetadataFields, m, sp) : m \in WideMetas, sp \in FewSpecs}
    \cup {MkDoc(TRUE, EphemeralMetadataFields, m, sp) : m \in FewMetas, sp \in WideSpecs}
    \cup {MkDoc(st, e, m, sp) :
            st \in BOOLEAN, e \in {{}, {"uid", "managedFields"}},
            m \in FewMetas, sp \in FewSpecs}

\* well-formed resources taken through a lifecycle of MaxOps invocations
LifeDocs ==
    {MkDoc(TRUE, EphemeralMetadataFields, m, SpecOf("list", l, InitDB, NoExternalClusters)) :
        m \in FewMetas,
        l \in { <<Block([serverName |-> "cnpg-1", barmanObjectName |-> "store-a"])>>,
                <<Block([serverName |-> "", barmanObjectName |-> "store-a"])>>,
                <<Block([barmanObjectName |-> "store-a"])>>,
                <<Block([serverName |-> "cnpg-1"]), Block([barmanObjectName |-> "store-b"])>>,
                <<Block([serverName |-> "cnpg-1", barmanObjectName |-> "store-a"]),
                  Block([serverName |-> "cnpg-2", barmanObjectName |-> "store-b"])>> }}

\* a Backup record of the cluster as getLatestCompletedBackupID reads it
BackupRecord(cluster, phase, backupId, created) ==
    [cluster |-> cluster, phase |-> phase, backupId |-> backupId, created |-> created]

\* the lists the API may return for the namespace
ListResponses ==
    { <<>>,
      <<BackupRecord("pg", CompletedPhase, "b1", 1), BackupRecord("pg", CompletedPhase, "b2", 2)>>,
      <<BackupRecord("pg", CompletedPhase, "b1", 1), BackupRecord("other", CompletedPhase, "bx", 3),
        BackupRecord("pg", "failed", "bf", 4)>>,
      <<BackupRecord("pg", CompletedPhase, Absent, 2), BackupRecord("pg", CompletedPhase, "b1", 1)>> }

-----------------------------------------------------------------------------
(* State machine: the host invokes the plugins on a resource *)

NoneYet(d) == Result("none", "ok", "", d, d, EmptyMap)

\* what a later invocation can still tell about the one before the last
Summary(r) == [op |-> r.op, outcome |-> r.outcome, lookup |-> r.lookup, backupID |-> r.backupID]

RaceIdle == [on |-> FALSE]

Init ==
    /\ \/ doc \in WideDocs /\ budget = WideOps
       \/ doc \in LifeDocs /\ budget = MaxOps
    /\ now = 0
    /\ configMaps = EmptyMap
    /\ last = NoneYet(doc)
    /\ prev = Summary(NoneYet(doc))
    /\ nops = 0
    /\ race = RaceIdle

\* the host runs the backup item action on the resource
Backup ==
    /\ ~race.on
    /\ nops < budget
    /\ \E api \in ListOutcomes, list \in ListResponses :
          \E r \in BackupExecute(doc, configMaps, api, list) :
             /\ doc' = r.doc
             /\ last' = r
    /\ prev' = Summary(last)
    /\ nops' = nops + 1
    /\ UNCHANGED <<now, configMaps, budget, race>>

\* the host runs the restore item action on the resource
Restore ==
    /\ ~race.on
    /\ nops < budget
    /\ \E outcome \in ApplyOutcomes :
          LET r == RestoreExecute(doc, configMaps, now, outcome)
          IN  /\ doc' = r.doc
              /\ configMaps' = r.configMaps
              /\ last' = r
    /\ prev' = Summary(last)
    /\ nops' = nops + 1
    /\ UNCHANGED <<now, budget, race>>

\* wall-clock time passes
Tick ==
    /\ now < MaxClock
    /\ now' = now + 1
    /\ UNCHANGED <<doc, configMaps, last, prev, nops, budget, race>>

Next == Backup \/ Restore \/ Tick

Spec == Init /\ [][Next]_vars

-----------------------------------------------------------------------------
(* Vocabulary of the properties *)

\* the resource carries the original-identity annotation, as a string
HasIdentityAnnotation(d) ==
    /\ d.metadata = "map"
    /\ d.annotations = "map"
    /\ AnnotationServerName \in DOMAIN d.ann
    /\ IsString(d.ann[AnnotationServerName])

\* plugin block b declares a serverName key in a parameters map
DeclaresServerName(b) ==
    b.kind = "map" /\ b.parameters = "map" /\ "serverName" \in DOMAIN b.params

\* plugin block b declares a string barmanObjectName
DeclaresStorage(b) ==
    /\ b.kind = "map"
    /\ b.parameters = "map"
    /\ "barmanObjectName" \in DOMAIN b.params
    /\ IsString(b.params["barmanObjectName"])

\* no plugin block of the resource names a storage location
StorageUnresolvable(d) ==
    \/ d.spec # "map"
    \/ d.plugins # "list"
    \/ \A i \in 1..Len(d.pluginsList) : ~DeclaresStorage(d.pluginsList[i])

\* the last invocation was a restore that returned a rewritten document
Rewritten ==
    last.op = "restore" /\ last.outcome = "ok" /\ HasIdentityAnnotation(last.in)

\* the ephemeral fields a document still carries
EphemeralLeft(d) ==
    \/ d.status
    \/ \E f \in {"resourceVersion", "uid", "generation", "creationTimestamp", "managedFields"} :
          f \in d.ephemeral

-----------------------------------------------------------------------------
(* C1 *)

\* C1: after every successful restore Execute on a resource carrying the
\* original-identity annotation, externalClusters[0] holds the original
\* identity and every plugin block that declared serverName holds the newly
\* minted identity, and the roles are never swapped: the external cluster
\* does not hold the new identity and no such plugin block keeps the original.
C1_RolesNeverSwapped ==
    Rewritten =>
        LET orig == last.in.ann[AnnotationServerName]
            new  == last.newServerName
            ext  == doc.externalClusters
            rotated == {i \in 1..Len(last.in.pluginsList) :
                            DeclaresServerName(last.in.pluginsList[i])}
        IN  /\ ext.present /\ Len(ext.list) >= 1
            /\ ext.list[1].serverName = orig
            /\ \A i \in rotated : doc.pluginsList[i].params["serverName"] = new
            /\ ext.list[1].serverName # new
            /\ \A i \in rotated : doc.pluginsList[i].params["serverName"] # orig

-----------------------------------------------------------------------------
(* C2 *)

\* C2: in every reachable state, a resource that carried the original-identity
\* annotation and was rewritten by restore has in its plugin parameters a
\* server identity different from the original identity in the annotation.
C2_NewIdentityDistinct ==
    Rewritten =>
        \A i \in 1..Len(doc.pluginsList) :
            DeclaresServerName(doc.pluginsList[i]) =>
                doc.pluginsList[i].params["serverName"] # doc.ann[AnnotationServerName]

-----------------------------------------------------------------------------
(* C3 *)

\* C3: if the original-identity annotation is present and no storage-location
\* name can be resolved, restore Execute returns the missing-backup-metadata
\* error and the document the caller holds is unmodified.
C3_MissingStorageFails ==
    (/\ last.op = "restore"
     /\ HasIdentityAnnotation(last.in)
     /\ StorageUnresolvable(last.in))
    => /\ last.outcome = "error"
       /\ last.err = "failed to extract barmanObjectName from plugin parameters"
       /\ doc = last.in

-----------------------------------------------------------------------------
(* C4 *)

\* C4: every backup or restore Execute that returns an error leaves the
\* in-memory document identical to the document passed in.
C4_ErrorLeavesDocument ==
    (last.op \in {"backup", "restore"} /\ last.outcome = "error") => doc = last.in

\* a restore returned the error of a failed upsert on a document that still
\* has its status and ephemeral metadata
C4_Witness ==
    /\ last.outcome = "error"
    /\ last.op = "restore"
    /\ last.upsert = "failed"
    /\ EphemeralLeft(last.in)
    /\ doc = last.in

-----------------------------------------------------------------------------
(* C5 *)

\* C5 as stated: the document returned by a successful restore Execute never
\* contains status or an ephemeral metadata field, whether or not the
\* original-identity annotation was present.
C5_AlwaysStripped ==
    (last.op = "restore" /\ last.outcome = "ok") => ~EphemeralLeft(doc)

\* C5 amended: the document returned by a successful restore Execute on a
\* resource carrying the original-identity annotation contains no status and
\* no ephemeral metadata field; a resource without the annotation is returned
\* as it was passed in, ephemeral fields included.
C5_StrippedWhenRecoverable ==
    (last.op = "restore" /\ last.outcome = "ok") =>
        IF HasIdentityAnnotation(last.in) THEN ~EphemeralLeft(doc) ELSE doc = last.in

\* a rewrite removed status and all five metadata fields
C5_Witness ==
    /\ Rewritten
    /\ last.in.status
    /\ last.in.ephemeral = {"resourceVersion", "uid", "generation", "creationTimestamp", "managedFields"}
    /\ ~EphemeralLeft(doc)

-----------------------------------------------------------------------------
(* C6 *)

\* the last invocation is a restore of the document the backup plugin just
\* returned
RestoreOfBackup == last.op = "restore" /\ prev.op = "backup" /\ prev.outcome = "ok"

\* C6: when the backup phase found a latest completed backup B and stamped it
\* as the current-backup-id annotation, a later restore Execute on that
\* document reads B and produces bootstrap.recovery.recoveryTarget.backupID = B.
C6_BackupIDConsumed ==
    (RestoreOfBackup /\ prev.lookup = "found") =>
        /\ Lookup(last.in.ann, AnnotationCurrentBackupID) = prev.backupID
        /\ last.path # "fresh"
        /\ last.outcome = "ok" =>
              /\ doc.bootstrap.kind = "recovery"
              /\ doc.bootstrap.backupID = prev.backupID

\* the backup id the resolver found ends as the recovery target
C6_Witness ==
    /\ RestoreOfBackup
    /\ prev.lookup = "found"
    /\ prev.backupID = "b2"
    /\ last.outcome = "ok"
    /\ doc.bootstrap.backupID = "b2"

-----------------------------------------------------------------------------
(* C7 *)

\* plugin block b carries a string serverName or a string barmanObjectName
Carries(b) ==
    \/ DeclaresServerName(b) /\ IsString(b.params["serverName"])
    \/ DeclaresStorage(b)

\* exactly one plugin block of d carries the parameters, and it carries both
SingleCarrier(d) ==
    /\ d.spec = "map"
    /\ d.plugins = "list"
    /\ Cardinality({i \in 1..Len(d.pluginsList) : Carries(d.pluginsList[i])}) = 1
    /\ \A i \in 1..Len(d.pluginsList) :
          Carries(d.pluginsList[i]) =>
              /\ DeclaresServerName(d.pluginsList[i])
              /\ IsString(d.pluginsList[i].params["serverName"])
              /\ DeclaresStorage(d.pluginsList[i])

\* the block of d that carries the parameters
Carrier(d) ==
    d.pluginsList[CHOOSE i \in 1..Len(d.pluginsList) : Carries(d.pluginsList[i])].params

\* the restore took the recoverable path and, where it returned a document,
\* the external cluster names serverName s and barmanObjectName b
RecoversFrom(s, b) ==
    /\ last.path = "recoverable"
    /\ last.outcome = "ok" =>
          /\ doc.externalClusters.present
          /\ Len(doc.externalClusters.list) = 1
          /\ doc.externalClusters.list[1].serverName = s
          /\ doc.externalClusters.list[1].barmanObjectName = b

\* C7 as stated: for every resource in which exactly one plugin block carries
\* string serverName s and barmanObjectName b, backup Execute and then restore
\* Execute on its output takes the recoverable path and yields an external
\* cluster with serverName s and barmanObjectName b.
C7_SameKeysAnyName ==
    (RestoreOfBackup /\ SingleCarrier(last.in)) =>
        RecoversFrom(Carrier(last.in)["serverName"], Carrier(last.in)["barmanObjectName"])

\* C7 amended: the same, for every resource in which the one plugin block
\* carries a non-empty string serverName s (an empty serverName is not
\* stamped by the backup phase).
C7_SameKeys ==
    (RestoreOfBackup /\ SingleCarrier(last.in) /\ Carrier(last.in)["serverName"] # "") =>
        RecoversFrom(Carrier(last.in)["serverName"], Carrier(last.in)["barmanObjectName"])

\* a resource without annotations went through backup and restore and
\* recovers from the identity and storage of its plugin block
C7_Witness ==
    /\ RestoreOfBackup
    /\ SingleCarrier(last.in)
    /\ last.outcome = "ok"
    /\ nops = 2
    /\ last.path = "recoverable"
    /\ doc.externalClusters.list[1].serverName = "cnpg-1"
    /\ doc.externalClusters.list[1].barmanObjectName = "store-a"

-----------------------------------------------------------------------------
(* C8 *)

\* restore Execute on d gets as far as the ConfigMap upsert
ReachesUpsert(d) ==
    /\ HasIdentityAnnotation(d)
    /\ IsString(Lookup(d.ann, AnnotationCurrentBackupID))
          \/ AnnotationCurrentBackupID \notin DOMAIN d.ann
    /\ ~StorageUnresolvable(d)
    /\ IsString(d.name)
    /\ IsString(d.namespace)

\* the upsert of the last restore failed
UpsertFailed == last.op = "restore" /\ ReachesUpsert(last.in) /\ last.api # "ok"

\* C8 as stated: if the upsert of the config object fails with an API or
\* timeout error, the restore invocation still succeeds and returns the
\* rewritten document.
C8_UpsertFailureSoft ==
    UpsertFailed =>
        /\ last.outcome = "ok"
        /\ doc.bootstrap.kind = "recovery"
        /\ doc.externalClusters.present

\* C8 amended: if the upsert of the config object fails with an API or timeout
\* error, the restore invocation returns that error, wrapped as a failure to
\* create/update the ConfigMap, and the document is left as it was passed in.
C8_UpsertFailureFatal ==
    UpsertFailed =>
        /\ last.outcome = "error"
        /\ last.err = "failed to create/update ConfigMap"
        /\ doc = last.in

\* a restore whose upsert the API server rejected returned the error
C8_Witness ==
    /\ UpsertFailed
    /\ last.api = "apiErr"
    /\ last.outcome = "error"
    /\ EphemeralLeft(doc)

-----------------------------------------------------------------------------
(* C9 *)

\* the lookup for clusterName cannot succeed: the client or the list fails,
\* or every latest completed backup of the cluster has no string backupId
LookupFails(api, list, clusterName) ==
    \/ api \in {"clientErr", "listErr"}
    \/ /\ api = "ok"
       /\ \E i \in 1..Len(list) : list[i].cluster = clusterName /\ list[i].phase = "completed"
       /\ \A i \in 1..Len(list) :
             (/\ list[i].cluster = clusterName
              /\ list[i].phase = "completed"
              /\ \A j \in 1..Len(list) :
                    (list[j].cluster = clusterName /\ list[j].phase = "completed")
                       => list[j].created <= list[i].created)
             => ~IsString(list[i].backupId)

\* the last backup called the resolver and the call failed
LookupFailed ==
    /\ last.op = "backup"
    /\ last.lookup \notin {"none", "skipped"}
    /\ LookupFails(last.api, last.list, last.in.name)

\* C9: if the backup-ID lookup fails, backup Execute still succeeds: the
\* returned document carries the serverName annotation and this invocation
\* adds no current-backup-id annotation.
C9_LookupFailureSoft ==
    LookupFailed =>
        /\ last.outcome = "ok"
        /\ HasIdentityAnnotation(doc)
        /\ doc.ann[AnnotationServerName] = last.serverName
        /\ Lookup(doc.ann, AnnotationCurrentBackupID)
              = Lookup(last.in.ann, AnnotationCurrentBackupID)

\* a backup whose list call failed returned the annotated document without a
\* backup id
C9_Witness ==
    /\ LookupFailed
    /\ last.api = "listErr"
    /\ last.outcome = "ok"
    /\ doc.ann[AnnotationServerName] = "cnpg-1"
    /\ AnnotationCurrentBackupID \notin DOMAIN doc.ann

-----------------------------------------------------------------------------
(* Two restore invocations racing on the ConfigMap upsert *)

Procs == {1, 2}

\* ConfigMaps(namespace).Create: fails when the object exists
createConfigMap(cms, namespace, data) ==
    IF namespace \in DOMAIN cms
    THEN [configMaps |-> cms, err |-> "configmaps \"cnpg-velero-override\" already exists"]
    ELSE [configMaps |-> SetKey(cms, namespace, data), err |-> ""]

\* ConfigMaps(namespace).Update of an object sent without resourceVersion:
\* replaces the object unconditionally, fails when there is none
updateConfigMap(cms, namespace, data) ==
    IF namespace \in DOMAIN cms
    THEN [configMaps |-> SetKey(cms, namespace, data), err |-> ""]
    ELSE [configMaps |-> cms, err |-> "configmaps \"cnpg-velero-override\" not found"]

\* the test looking for the reason "AlreadyExists", which the message of the
\* error does not contain
IsAlreadyExists_Reason(err) == err = "AlreadyExists"

\* strings.Contains(err.Error(), "already exists") of the Create-then-Update
\* revision
IsAlreadyExists(err) == err = "configmaps \"cnpg-velero-override\" already exists"

\* the arguments Execute passes to createOrUpdateConfigMap
UpsertArgs ==
    [namespace : {"ns"},
     write : {generateNewServerName("pg", t) : t \in 0..MaxClock},
     read  : {"cnpg-1", "cnpg-2"}]

\* the resource both invocations restore
RaceDoc ==
    MkDoc(TRUE, EphemeralMetadataFields,
          Meta("pg", "ns", "map", [k \in {AnnotationServerName} |-> "cnpg-1"]),
          SpecOf("list", <<Block([serverName |-> "cnpg-1", barmanObjectName |-> "store-a"])>>,
                 InitDB, NoExternalClusters))

InitRace ==
    /\ doc = RaceDoc
    /\ budget = 0
    /\ now = 0
    /\ configMaps \in {EmptyMap, [ns |-> ConfigMapObject("pg-20251012-000000", "cnpg-0")]}
    /\ last = NoneYet(doc)
    /\ prev = Summary(NoneYet(doc))
    /\ nops = 0
    /\ \E revision \in {"apply", "createUpdate"}, a1 \in UpsertArgs, a2 \in UpsertArgs :
          race = [on |-> TRUE, revision |-> revision,
                  args |-> <<a1, a2>>,
                  pc |-> <<"start", "start">>,
                  err |-> <<"", "">>,
                  lastWriter |-> 0]

\* server-side Apply of the newer revision: one atomic request
RaceApply(p) ==
    /\ race.on /\ race.revision = "apply" /\ race.pc[p] = "start"
    /\ LET a == race.args[p]
           r == createOrUpdateConfigMap(configMaps, "ok", a.namespace, a.write, a.read)
       IN  /\ configMaps' = r.configMaps
           /\ race' = [race EXCEPT !.pc[p] = IF r.err = "" THEN "done" ELSE "failed",
                                   !.err[p] = r.err,
                                   !.lastWriter = p]
    /\ UNCHANGED <<doc, now, last, prev, nops, budget>>

\* the Create request of the older revision
RaceCreate(p) ==
    /\ race.on /\ race.revision = "createUpdate" /\ race.pc[p] = "start"
    /\ LET a == race.args[p]
           r == createConfigMap(configMaps, a.namespace, ConfigMapObject(a.write, a.read))
       IN  /\ configMaps' = r.configMaps
           /\ race' = [race EXCEPT
                         !.pc[p] = IF r.err = "" THEN "done"
                                   ELSE IF IsAlreadyExists(r.err) THEN "update" ELSE "failed",
                         !.err[p] = IF r.err = "" \/ IsAlreadyExists(r.err) THEN ""
                                    ELSE "failed to create ConfigMap",
                         !.lastWriter = IF r.err = "" THEN p ELSE race.lastWriter]
    /\ UNCHANGED <<doc, now, last, prev, nops, budget>>

\* the Update request the older revision sends after "already exists"
RaceUpdate(p) ==
    /\ race.on /\ race.revision = "createUpdate" /\ race.pc[p] = "update"
    /\ LET a == race.args[p]
           r == updateConfigMap(configMaps, a.namespace, ConfigMapObject(a.write, a.read))
       IN  /\ configMaps' = r.configMaps
           /\ race' = [race EXCEPT
                         !.pc[p] = IF r.err = "" THEN "done" ELSE "failed",
                         !.err[p] = IF r.err = "" THEN "" ELSE "failed to update ConfigMap",
                         !.lastWriter = IF r.err = "" THEN p ELSE race.lastWriter]
    /\ UNCHANGED <<doc, now, last, prev, nops, budget>>

NextRace == \E p \in Procs : RaceApply(p) \/ RaceCreate(p) \/ RaceUpdate(p)

SpecRace == InitRace /\ [][NextRace]_vars

-----------------------------------------------------------------------------
(* C10 *)

\* both racing invocations have returned from createOrUpdateConfigMap
RaceOver == race.on /\ \A p \in Procs : race.pc[p] \in {"done", "failed"}

\* C10: for every interleaving of two concurrent restore invocations that
\* upsert the cnpg-velero-override ConfigMap of one namespace, no upsert fails
\* because of the race, and once both have returned the object holds exactly
\* the (write_to_server_name, read_from_server_name) pair of the invocation
\* whose write was applied last.
C10_LastWriterWins ==
    /\ \A p \in Procs : race.pc[p] # "failed" /\ race.err[p] = ""
    /\ RaceOver =>
          /\ race.lastWriter \in Procs
          /\ "ns" \in DOMAIN configMaps
          /\ configMaps["ns"] = ConfigMapObject(race.args[race.lastWriter].write,
                                              race.args[race.lastWriter].read)

\* the Create of one invocation lost the race to the other's, its Update was
\* applied last, and the object holds its pair and not the other's
C10_Witness ==
    /\ RaceOver
    /\ race.revision = "createUpdate"
    /\ race.lastWriter = 2
    /\ race.args[1] # race.args[2]
    /\ race.args[1].write # race.args[2].write
    /\ configMaps["ns"] = ConfigMapObject(race.args[2].write, race.args[2].read)

-----------------------------------------------------------------------------
(* C11 *)

\* the resource has no original-identity annotation: metadata, the
\* annotations map or the key is absent
Fresh(d) ==
    \/ d.metadata = "absent"
    \/ d.metadata = "map" /\ d.annotations = "absent"
    \/ d.metadata = "map" /\ d.annotations = "map" /\ AnnotationServerName \notin DOMAIN d.ann

\* the step is a restore invocation
RestoreStep == nops' = nops + 1 /\ last'.op = "restore"

\* the step is a backup invocation
BackupStep == nops' = nops + 1 /\ last'.op = "backup"

\* C11: every restore Execute on a resource without the original-identity
\* annotation succeeds, returns the document as it was passed in (spec
\* unchanged: no externalClusters, bootstrap or plugin serverName change) and
\* leaves the ConfigMaps of the cluster as they were (no upsert).
C11_FreshTerminal ==
    [][(RestoreStep /\ Fresh(doc)) =>
          /\ last'.outcome = "ok"
          /\ doc' = doc
          /\ last'.upsert = "none"
          /\ configMaps' = configMaps]_vars

-----------------------------------------------------------------------------
(* C12 *)

\* the string serverName values the plugin blocks of d carry
ServerNames(d) ==
    IF d.spec = "map" /\ d.plugins = "list"
    THEN {d.pluginsList[i].params["serverName"] :
             i \in {j \in 1..Len(d.pluginsList) :
                       /\ DeclaresServerName(d.pluginsList[j])
                       /\ IsString(d.pluginsList[j].params["serverName"])}}
    ELSE {}

\* a cluster resource: metadata is a map whose annotations, if any, are a
\* map, and spec is a map whose plugins, if any, are a list
ClusterShaped(d) ==
    /\ d.metadata = "map"
    /\ d.annotations \in {"absent", "map"}
    /\ d.spec = "map"
    /\ d.plugins \in {"absent", "list"}

\* d with annotation key = value and nothing else changed
Stamped(d, key, value) ==
    [d EXCEPT !.annotations = "map",
              !.ann = SetKey(IF d.annotations = "map" THEN d.ann ELSE EmptyMap, key, value)]

\* C12: backup Execute on a resource whose plugin parameters contain
\* serverName s returns the document with the annotation
\* velero-cnpg/serverName = s and everything else (spec, other metadata,
\* pre-existing annotations) unchanged; when the plugin parameters contain
\* no serverName it returns the document unchanged, no annotation added.
C12_BackupFrame ==
    [][(BackupStep /\ ClusterShaped(doc)) =>
          /\ last'.outcome = "ok"
          /\ IF ServerNames(doc) = {}
             THEN doc' = doc
             ELSE \E s \in ServerNames(doc) : doc' = Stamped(doc, AnnotationServerName, s)]_vars

\* the serverName of the first plugin block of d that carries a string
\* serverName, "" when there is none
FirstServerName(d) ==
    LET carriers == {i \in 1..Len(d.pluginsList) :
                        /\ DeclaresServerName(d.pluginsList[i])
                        /\ IsString(d.pluginsList[i].params["serverName"])}
    IN  IF d.spec = "map" /\ d.plugins = "list" /\ carriers # {}
        THEN d.pluginsList[CHOOSE i \in carriers : \A j \in carriers : i <= j].params["serverName"]
        ELSE ""

\* the completed backups of cluster c in list that no completed backup of c
\* is newer than
NewestCompleted(list, c) ==
    {i \in 1..Len(list) :
        /\ list[i].cluster = c /\ list[i].phase = "completed"
        /\ \A j \in 1..Len(list) :
              (list[j].cluster = c /\ list[j].phase = "completed")
                 => list[j].created <= list[i].created}

\* the lookup of the backup id runs for d and the API answers
LookupAnswers(d, api) ==
    /\ api = "ok"
    /\ IsString(d.name) /\ d.name # ""
    /\ IsString(d.namespace) /\ d.namespace # ""

\* C12 amended: every backup Execute that returns a document returns the
\* input unchanged when the first string serverName of the plugin blocks is
\* missing or empty; otherwise it returns the input with the annotation
\* velero-cnpg/serverName = s and, when the lookup finds a latest completed
\* backup with a non-empty backupId B, velero-cnpg/current-backup-id = B, and
\* with everything else (spec, other metadata, other annotations) unchanged.
C12_BackupFrameWithID ==
    [][(BackupStep /\ last'.outcome = "ok") =>
          LET s    == FirstServerName(doc)
              base == Stamped(doc, AnnotationServerName, s)
              new  == NewestCompleted(last'.list, doc.name)
          IN  IF s = "" THEN doc' = doc
              ELSE IF LookupAnswers(doc, last'.api) /\ new # {}
              THEN \E i \in new :
                      IF IsString(last'.list[i].backupId) /\ last'.list[i].backupId # ""
                      THEN doc' = Stamped(base, AnnotationCurrentBackupID, last'.list[i].backupId)
                      ELSE doc' = base
              ELSE doc' = base]_vars

\* a backup stamped both annotations next to an annotation of another owner
C12_Witness ==
    /\ last.op = "backup"
    /\ last.outcome = "ok"
    /\ last.in.annotations = "map"
    /\ last.in.ann = [k \in {"other"} |-> "x"]
    /\ last.in.status
    /\ doc.ann = [k \in {"other", AnnotationServerName, AnnotationCurrentBackupID} |->
                     IF k = "other" THEN "x"
                     ELSE IF k = AnnotationServerName THEN "cnpg-1" ELSE "b2"]
    /\ doc = [last.in EXCEPT !.ann = doc.ann]

-----------------------------------------------------------------------------
(* C13 *)

\* d has at least two plugin blocks and one of them carries a parameter
ManyBlocks(d) ==
    /\ d.spec = "map"
    /\ d.plugins = "list"
    /\ Len(d.pluginsList) >= 2
    /\ \E i \in 1..Len(d.pluginsList) : Carries(d.pluginsList[i])

\* the first plugin block of d that carries a string serverName or a string
\* barmanObjectName
FirstCarrier(d) ==
    d.pluginsList[CHOOSE i \in 1..Len(d.pluginsList) :
                     /\ Carries(d.pluginsList[i])
                     /\ \A j \in 1..(i - 1) : ~Carries(d.pluginsList[j])]

\* C13: for every resource with two or more plugin blocks, of which block k
\* is the first that carries serverName or barmanObjectName, the identity a
\* successful backup Execute records is the serverName of block k (none is
\* recorded when block k has none) and the storage-location name a successful
\* restore Execute puts in the external cluster is the barmanObjectName of
\* block k: later blocks are ignored and values are never merged across blocks.
C13_SingleBlockAttribution ==
    /\ (last.op = "backup" /\ last.outcome = "ok" /\ ManyBlocks(last.in)) =>
          LET b == FirstCarrier(last.in)
          IN  IF DeclaresServerName(b) /\ IsString(b.params["serverName"])
              THEN last.serverName = b.params["serverName"]
              ELSE last.serverName = "" /\ doc.ann = last.in.ann
    /\ (Rewritten /\ ManyBlocks(last.in)) =>
          LET b == FirstCarrier(last.in)
          IN  /\ DeclaresStorage(b)
              /\ doc.externalClusters.list[1].barmanObjectName = b.params["barmanObjectName"]

-----------------------------------------------------------------------------
(* The helpers of the two plugins, called one at a time on a document *)

\* calls in a run of SpecUnit
MaxCalls == 2

\* the record a call leaves: the function, the document and arguments it was
\* given, the values and the error it returned
Call(op, in, key, arg, value, found, err) ==
    [op |-> op, in |-> in, key |-> key, arg |-> arg, value |-> value, found |-> found,
     err |-> err, api |-> "none", list |-> <<>>, results |-> {}]

UnitMetas ==
    { NoMeta("absent"), NoMeta("notmap"),
      Meta("pg", "ns", "absent", EmptyMap),
      Meta("pg", "ns", "notmap", EmptyMap),
      Meta("pg", "ns", "map", EmptyMap),
      Meta("pg", "ns", "map", [k \in {"other"} |-> "x"]),
      Meta("pg", "ns", "map", [k \in {AnnotationServerName} |-> NonString]),
      Meta("pg", "ns", "map", [k \in {AnnotationServerName} |-> ""]),
      Meta("pg", "ns", "map",
           [k \in {AnnotationServerName, "other"} |->
               IF k = AnnotationServerName THEN "cnpg-1" ELSE "x"]) }

UnitSpecs ==
    { NoSpec("absent"), NoSpec("notmap"),
      SpecOf("absent", <<>>, InitDB, NoExternalClusters),
      SpecOf("notlist", <<>>, InitDB, NoExternalClusters),
      SpecOf("list", <<>>, NoBootstrap, PriorExternalClusters),
      SpecOf("list", <<NotMapBlock, NoParamsBlock, ParamsNotMapBlock, Block(EmptyMap)>>,
             InitDB, NoExternalClusters),
      SpecOf("list", <<Block([serverName |-> "cnpg-1", barmanObjectName |-> "store-a"])>>,
             InitDB, PriorExternalClusters),
      SpecOf("list", <<Block([barmanObjectName |-> "store-b"]),
                       Block([serverName |-> NonString, barmanObjectName |-> NonString]),
                       Block([serverName |-> "", other |-> "y"]),
                       Block([serverName |-> "cnpg-2", barmanObjectName |-> "store-a"])>>,
             NoBootstrap, NoExternalClusters) }

UnitDocs == {MkDoc(TRUE, {"uid", "managedFields"}, m, sp) : m \in UnitMetas, sp \in UnitSpecs}

InitUnit ==
    /\ doc \in UnitDocs
    /\ budget = MaxCalls
    /\ now = 0
    /\ configMaps = EmptyMap
    /\ last = NoneYet(doc)
    /\ prev = Summary(NoneYet(doc))
    /\ nops = 0
    /\ race = RaceIdle

\* what a call leaves alone
UnitFrame ==
    /\ nops < budget
    /\ nops' = nops + 1
    /\ prev' = Summary(NoneYet(doc))
    /\ UNCHANGED <<now, configMaps, budget, race>>

CallExtractPluginParameters ==
    /\ UnitFrame
    /\ LET r == extractPluginParameters(doc)
       IN  last' = Call("extractPluginParameters", doc, "", "", r.serverName, FALSE, r.err)
    /\ doc' = doc

CallExtractBarmanObjectName ==
    /\ UnitFrame
    /\ LET r == extractBarmanObjectName(doc)
       IN  last' = Call("extractBarmanObjectName", doc, "", "", r.value, FALSE, r.err)
    /\ doc' = doc

CallUpdatePluginServerName ==
    /\ UnitFrame
    /\ \E t \in 0..MaxClock :
          LET newServerName == generateNewServerName("pg", t)
              r == updatePluginServerName(doc, newServerName)
          IN  /\ last' = Call("updatePluginServerName", doc, "", newServerName, "", FALSE, r.err)
              /\ doc' = r.doc

\* the lists the API may return to a call of the resolver: no records, equal
\* creation timestamps, a newer backup of another cluster or in another
\* phase, records without a cluster reference, a latest backup whose
\* backupId is missing or is not a string
UnitLists ==
    ListResponses \cup
    { <<BackupRecord("pg", CompletedPhase, "b1", 2), BackupRecord("pg", CompletedPhase, "b2", 2)>>,
      <<BackupRecord("other", CompletedPhase, "bx", 1)>>,
      <<BackupRecord("pg", "running", "br", 1), BackupRecord("pg", Absent, "bp", 2),
        BackupRecord("pg", NonString, "bn", 3)>>,
      <<BackupRecord(Absent, CompletedPhase, "ba", 3), BackupRecord("pg", CompletedPhase, "b1", 1),
        BackupRecord(NonString, CompletedPhase, "bn", 4), BackupRecord("pg", CompletedPhase, "b2", 2)>>,
      <<BackupRecord("pg", CompletedPhase, "b1", 1), BackupRecord("pg", CompletedPhase, NonString, 2)>>,
      <<BackupRecord("pg", CompletedPhase, "", 1)>> }

CallGetLatestCompletedBackupID ==
    /\ UnitFrame
    /\ \E api \in ListOutcomes, list \in UnitLists, clusterName \in {"pg", "other"} :
          \E r \in getLatestCompletedBackupID(api, list, clusterName) :
             last' = [Call("getLatestCompletedBackupID", doc, "", clusterName,
                           r.backupID, FALSE, r.err)
                         EXCEPT !.api = api, !.list = list]
    /\ doc' = doc

\* the annotation keys the helpers are called with
UnitKeys == {AnnotationServerName, AnnotationCurrentBackupID, "other"}

CallGetAnnotation ==
    /\ UnitFrame
    /\ \E key \in UnitKeys :
          LET r == getAnnotation(doc, key)
          IN  last' = Call("getAnnotation", doc, key, "", r.value, r.found, r.err)
    /\ doc' = doc

\* the values the annotation is set to
UnitValues == {"cnpg-1", "b1"}

CallAddAnnotation ==
    /\ UnitFrame
    /\ \E key \in UnitKeys, value \in UnitValues :
          LET r == addAnnotation(doc, key, value)
          IN  /\ last' = Call("addAnnotation", doc, key, value, "", FALSE, r.err)
              /\ doc' = r.doc

\* the base names the identity generator is called with
UnitNames == {"pg", "db"}

\* generateNewServerName reads the clock, which has moved on since the call
\* before, and formats the reading
CallGenerateNewServerName ==
    /\ nops < budget
    /\ nops' = nops + 1
    /\ prev' = [Summary(NoneYet(doc)) EXCEPT !.op = last.op]
    /\ now' \in now..MaxClock
    /\ \E clusterName \in UnitNames :
          last' = Call("generateNewServerName", doc, "", clusterName,
                       generateNewServerName(clusterName, now'), FALSE, "")
    /\ UNCHANGED <<doc, configMaps, budget, race>>

NextUnit ==
    \/ CallGenerateNewServerName
    \/ CallAddAnnotation
    \/ CallGetAnnotation
    \/ CallGetLatestCompletedBackupID
    \/ CallExtractPluginParameters
    \/ CallExtractBarmanObjectName
    \/ CallUpdatePluginServerName

SpecUnit == InitUnit /\ [][NextUnit]_vars

-----------------------------------------------------------------------------
(* C14 *)

\* the last call was one of the two parameter extractors
Extracted == last.op \in {"extractPluginParameters", "extractBarmanObjectName"}

\* the errors of a structural field that is absent or of the wrong shape
MalformedSpecErrors == {"spec field not found", "spec is not a map"}

\* C14 as stated: parameter extraction fails as malformed for every resource
\* whose spec is absent or not a mapping, and succeeds returning empty values
\* for every resource whose spec is a mapping without a plugins list.
C14_ExtractionOutcome ==
    Extracted =>
        /\ last.in.spec # "map" => last.err \in MalformedSpecErrors
        /\ (last.in.spec = "map" /\ last.in.plugins = "absent") =>
              last.err = "" /\ last.value = ""

\* C14 amended: both extractors fail as malformed for every resource whose spec
\* is absent or not a mapping; for a resource whose spec is a mapping without
\* a plugins list, the backup-time extraction of serverName succeeds
\* returning the empty value and the restore-time extraction of
\* barmanObjectName fails with "no plugins found in spec".
C14_ExtractionOutcomeByPhase ==
    Extracted =>
        /\ last.in.spec # "map" => last.err \in MalformedSpecErrors
        /\ (last.in.spec = "map" /\ last.in.plugins = "absent") =>
              IF last.op = "extractPluginParameters"
              THEN last.err = "" /\ last.value = ""
              ELSE last.err = "no plugins found in spec" /\ last.value = ""

\* extraction was called on a resource without spec and failed
C14_Witness ==
    /\ last.op = "extractPluginParameters"
    /\ last.in.spec = "absent"
    /\ last.err = "spec field not found"
    /\ doc = last.in

-----------------------------------------------------------------------------
(* C15 *)

\* the bootstrap block {recovery: {source: "clusterBackup"}}, with
\* recoveryTarget.backupID = id unless id is Absent
RecoveryFrom(id) == [kind |-> "recovery", source |-> "clusterBackup", backupID |-> id]

\* C15 as stated: the restore rewrite replaces spec.bootstrap wholesale with
\* {recovery: {source: "clusterBackup"}}, whatever it was before, and the
\* recovery block has recoveryTarget.backupID = id if and only if the resource
\* carried a current-backup-id annotation, id being its value.
C15_TargetIffAnnotation ==
    Rewritten =>
        IF AnnotationCurrentBackupID \in DOMAIN last.in.ann
        THEN doc.bootstrap = RecoveryFrom(last.in.ann[AnnotationCurrentBackupID])
        ELSE doc.bootstrap = RecoveryFrom(Absent)

\* C15 amended: the same, with recoveryTarget.backupID = id if and only if the
\* resource carried a current-backup-id annotation with a non-empty value id.
C15_TargetIffNonEmptyAnnotation ==
    Rewritten =>
        IF /\ AnnotationCurrentBackupID \in DOMAIN last.in.ann
           /\ last.in.ann[AnnotationCurrentBackupID] # ""
        THEN doc.bootstrap = RecoveryFrom(last.in.ann[AnnotationCurrentBackupID])
        ELSE doc.bootstrap = RecoveryFrom(Absent)

\* a rewrite replaced an initdb bootstrap by a recovery targeting the
\* annotated backup
C15_Witness ==
    /\ Rewritten
    /\ last.in.bootstrap.kind = "initdb"
    /\ Lookup(last.in.ann, AnnotationCurrentBackupID) = "b0"
    /\ doc.bootstrap = RecoveryFrom("b0")

-----------------------------------------------------------------------------
(* C16 *)

\* the barmanObjectName of the first plugin block of d that carries a string
\* barmanObjectName
FirstStorage(d) ==
    d.pluginsList[CHOOSE i \in 1..Len(d.pluginsList) :
                     /\ DeclaresStorage(d.pluginsList[i])
                     /\ \A j \in 1..(i - 1) : ~DeclaresStorage(d.pluginsList[j])]
        .params["barmanObjectName"]

\* C16: the restore rewrite replaces spec.externalClusters wholesale:
\* whatever entries the resource had, the result is a list of exactly one
\* entry, named clusterBackup, whose plugin is barman-cloud.cloudnative-pg.io
\* with parameters barmanObjectName = the resolved storage-location name and
\* serverName = the original identity of the annotation.
C16_SingleExternalCluster ==
    Rewritten =>
        /\ doc.externalClusters.present
        /\ doc.externalClusters.list =
              << [name |-> "clusterBackup",
                  plugin |-> "barman-cloud.cloudnative-pg.io",
                  barmanObjectName |-> FirstStorage(last.in),
                  serverName |-> last.in.ann[AnnotationServerName]] >>

\* a rewrite replaced the entry of a resource that had one
C16_Witness ==
    /\ Rewritten
    /\ last.in.externalClusters.present
    /\ Len(last.in.externalClusters.list) = 1
    /\ last.in.externalClusters.list[1].name = "origin"
    /\ Len(doc.externalClusters.list) = 1
    /\ doc.externalClusters.list[1].name = "clusterBackup"
    /\ doc.externalClusters.list[1].barmanObjectName = "store-b"
    /\ doc.externalClusters.list[1].serverName = "cnpg-1"

-----------------------------------------------------------------------------
(* C17 *)

\* C17: updatePluginServerName sets parameters.serverName to the new identity
\* in every plugin block that already declares a serverName key, leaves the
\* blocks without the key and all other parameters as they were, never adds
\* the key, and returns no error when no block needed rotation or when
\* spec.plugins is absent or empty.
C17_RotatesDeclaredOnly ==
    last.op = "updatePluginServerName" =>
        LET d == last.in
            n == Len(d.pluginsList)
        IN  /\ (d.spec = "map" /\ d.plugins \in {"absent", "list"}) =>
                  /\ last.err = ""
                  /\ doc = [d EXCEPT !.pluginsList = doc.pluginsList]
                  /\ Len(doc.pluginsList) = n
                  /\ \A i \in 1..n :
                        LET old == d.pluginsList[i]
                            new == doc.pluginsList[i]
                        IN  IF DeclaresServerName(old)
                            THEN /\ new = [old EXCEPT !.params = new.params]
                                 /\ DOMAIN new.params = DOMAIN old.params
                                 /\ new.params["serverName"] = last.arg
                                 /\ \A k \in DOMAIN old.params \ {"serverName"} :
                                       new.params[k] = old.params[k]
                            ELSE new = old

\* a call rotated the blocks that declare serverName, whatever its value,
\* and left the block without the key and the other parameter alone
C17_Witness ==
    /\ last.op = "updatePluginServerName"
    /\ last.err = ""
    /\ Len(last.in.pluginsList) = 4
    /\ last.in.pluginsList[3].params = [serverName |-> "", other |-> "y"]
    /\ doc.pluginsList[1].params = [barmanObjectName |-> "store-b"]
    /\ doc.pluginsList[2].params = [serverName |-> last.arg, barmanObjectName |-> NonString]
    /\ doc.pluginsList[3].params = [serverName |-> last.arg, other |-> "y"]
    /\ doc.pluginsList[4].params["serverName"] = "pg-20251013-135400"

-----------------------------------------------------------------------------
(* C18 *)

\* the last call was a lookup the API answered
Resolved == last.op = "getLatestCompletedBackupID" /\ last.api = "ok"

\* C18: getLatestCompletedBackupID returns the status.backupId of a backup
\* record with the greatest creation timestamp among those whose
\* spec.cluster.name is the given cluster name and whose status.phase is
\* "completed"; it returns empty without error when there are no backups,
\* none references the cluster or none is completed; and it never returns
\* the identifier of a backup of another cluster or of a backup that is not
\* completed.
C18_LatestCompleted ==
    Resolved =>
        LET new == NewestCompleted(last.list, last.arg)
        IN  /\ new = {} => last.err = "" /\ last.value = ""
            /\ (new # {} /\ last.err = "") =>
                  \E i \in new : last.value = last.list[i].backupId
            /\ (new # {} /\ \A i \in new : IsString(last.list[i].backupId)) => last.err = ""
            /\ \A i \in 1..Len(last.list) :
                  (last.list[i].cluster # last.arg \/ last.list[i].phase # "completed")
                     => (last.value = "" \/ last.value # last.list[i].backupId)

\* among an older completed backup of the cluster, a newer one of another
\* cluster and a newest one that failed, the call returned the first
C18_Witness ==
    /\ Resolved
    /\ last.arg = "pg"
    /\ Len(last.list) = 3
    /\ last.list[2].cluster = "other" /\ last.list[2].created = 3
    /\ last.list[3].phase = "failed" /\ last.list[3].created = 4
    /\ last.err = ""
    /\ last.value = "b1"

-----------------------------------------------------------------------------
(* C19 *)

\* metadata or annotations of d exists and is not a map
AnnotationsMalformed(d) ==
    d.metadata = "notmap" \/ (d.metadata = "map" /\ d.annotations = "notmap")

\* d has an annotations map that holds key
HoldsKey(d, key) == d.metadata = "map" /\ d.annotations = "map" /\ key \in DOMAIN d.ann

\* C19 as stated: getAnnotation returns an error only if metadata or
\* annotations exists but is not a mapping; for every other document (metadata
\* absent, annotations absent, key absent, key present with any value) it
\* returns without error, with found = false when the key cannot be read.
C19_GetFailsOnlyOnShape ==
    last.op = "getAnnotation" =>
        /\ last.err # "" <=> AnnotationsMalformed(last.in)
        /\ (~HoldsKey(last.in, last.key) \/ ~IsString(last.in.ann[last.key])) => ~last.found

\* C19 amended: getAnnotation returns an error only if metadata or annotations
\* exists but is not a mapping, or if the key is present with a value that is
\* not a string; for every other document it returns without error, with
\* found = false when metadata, annotations or the key is absent and with
\* found = true and the value when the key holds a string.
C19_GetFailsOnShapeOrValue ==
    last.op = "getAnnotation" =>
        LET held == HoldsKey(last.in, last.key)
        IN  /\ last.err # "" <=>
                  \/ AnnotationsMalformed(last.in)
                  \/ held /\ ~IsString(last.in.ann[last.key])
            /\ last.found <=> (held /\ IsString(last.in.ann[last.key]))
            /\ last.value = IF last.found THEN last.in.ann[last.key] ELSE ""
            /\ doc = last.in

\* a call on a resource without metadata returned not found and no error
C19_Witness ==
    /\ last.op = "getAnnotation"
    /\ last.in.metadata = "absent"
    /\ last.err = ""
    /\ ~last.found
    /\ last.value = ""

-----------------------------------------------------------------------------
(* C20 *)

\* C20 as stated: addAnnotation fails if metadata is absent or not a mapping;
\* otherwise it creates the annotations mapping when absent and sets the key,
\* leaving every other annotation and every other field of the document as
\* it was.
C20_SetFrame ==
    last.op = "addAnnotation" =>
        IF last.in.metadata # "map"
        THEN last.err # "" /\ doc = last.in
        ELSE last.err = "" /\ doc = Stamped(last.in, last.key, last.arg)

\* C20 amended: addAnnotation fails if metadata is absent or not a mapping, or
\* if annotations exists but is not a mapping, and then leaves the document
\* as it was; otherwise it creates the annotations mapping when absent and
\* sets the key, leaving every other annotation and every other field of the
\* document as it was.
C20_SetFrameOrMalformed ==
    last.op = "addAnnotation" =>
        IF last.in.metadata # "map" \/ last.in.annotations = "notmap"
        THEN last.err # "" /\ doc = last.in
        ELSE /\ last.err = ""
             /\ doc = Stamped(last.in, last.key, last.arg)
             /\ doc.ann[last.key] = last.arg
             /\ \A k \in DOMAIN last.in.ann \ {last.key} : doc.ann[k] = last.in.ann[k]

\* a first call set the serverName annotation and a second one added the
\* backup id next to it
C20_Witness ==
    /\ last.op = "addAnnotation"
    /\ last.err = ""
    /\ last.key = AnnotationCurrentBackupID
    /\ nops = 2
    /\ doc.name = "pg"
    /\ doc.ann = [k \in {AnnotationServerName, AnnotationCurrentBackupID} |->
                     IF k = AnnotationServerName THEN "cnpg-1" ELSE "b1"]
    /\ last.in.ann = [k \in {AnnotationServerName} |-> "cnpg-1"]

-----------------------------------------------------------------------------
(* C21 *)

\* the step calls addAnnotation with the key and value of the call before
SetAgain ==
    /\ nops' = nops + 1
    /\ last.op = "addAnnotation"
    /\ last'.op = "addAnnotation"
    /\ last'.key = last.key
    /\ last'.arg = last.arg

\* C21: for every document with a metadata mapping and every key and value,
\* a second addAnnotation with the same key and value leaves the annotations
\* of the document as the first call left them.
C21_SetIdempotent ==
    [][(SetAgain /\ doc.metadata = "map") =>
          /\ doc'.annotations = doc.annotations
          /\ doc'.ann = doc.ann
          /\ doc' = doc
          /\ last'.err = last.err]_vars

\* the backup id was set twice and the document holds it once
C21_Witness ==
    /\ nops = 2
    /\ last.op = "addAnnotation"
    /\ last.err = ""
    /\ last.key = AnnotationCurrentBackupID
    /\ last.in.annotations = "map"
    /\ Lookup(last.in.ann, AnnotationCurrentBackupID) = last.arg
    /\ "other" \in DOMAIN doc.ann
    /\ doc.ann[AnnotationCurrentBackupID] = last.arg
    /\ doc = last.in

-----------------------------------------------------------------------------
(* The Deployment restore plugin *)

\* init containers of a Deployment in the model
MaxContainers == 3

MigrationInitContainerName == "wait-for-migration-job"

\* an entry of spec.template.spec.initContainers: a map with a name (a
\* string, NonString or Absent) or a value that is not a map
Container(kind, name) == [kind |-> kind, name |-> name]

Containers ==
    { Container("map", MigrationInitContainerName),
      Container("map", "other-init"),
      Container("map", Absent),
      Container("map", NonString),
      Container("notmap", Absent) }

RECURSIVE ContainerLists(_)
\* the lists of at most n entries
ContainerLists(n) ==
    IF n = 0 THEN {<<>>}
    ELSE LET shorter == ContainerLists(n - 1)
         IN  shorter \cup {Append(l, c) : l \in {x \in shorter : Len(x) = n - 1}, c \in Containers}

\* a Deployment document: metadata as in a Cluster document; path tells
\* whether spec.template.spec exists ("map"), is cut short by a missing key
\* ("absent") or by a value that is not a map ("notmap"); initContainers is
\* "absent", "notlist" or "list"
Deployment(m, path, initContainers, containers) ==
    [metadata |-> m.metadata, name |-> m.name, namespace |-> m.namespace,
     path |-> path,
     initContainers |-> IF path = "map" THEN initContainers ELSE "absent",
     containers |-> IF path = "map" /\ initContainers = "list" THEN containers ELSE <<>>]

DeploymentMetas ==
    { NoMeta("absent"), NoMeta("notmap"),
      Meta("app", "ns", "absent", EmptyMap),
      Meta(Absent, "ns", "absent", EmptyMap),
      Meta(NonString, "ns", "absent", EmptyMap) }

Deployments ==
    {Deployment(m, path, "absent", <<>>) : m \in DeploymentMetas, path \in {"absent", "notmap", "map"}}
    \cup {Deployment(m, "map", "notlist", <<>>) : m \in DeploymentMetas}
    \cup {Deployment(m, "map", "list", l) : m \in DeploymentMetas, l \in ContainerLists(MaxContainers)}

\* the body of the loop of Execute taking a container without a string name
\* for one to remove
KeepContainer_DropsUnnamed(c) ==
    c.kind = "map" /\ IsString(c.name) /\ c.name # MigrationInitContainerName

\* the body of the loop of Execute: TRUE when the container is appended to
\* filteredContainers
KeepContainer(c) ==
    IF c.kind # "map" THEN TRUE
    ELSE IF c.name = Absent THEN TRUE
    ELSE IF c.name = NonString THEN TRUE
    ELSE c.name # MigrationInitContainerName

\* DeploymentRestorePlugin.Execute on Deployment d
DeploymentExecute(d) ==
    LET R(o, out) == Result("deployment", o, "", d, out, EmptyMap)
        filteredContainers == SelectSeq(d.containers, KeepContainer)
        removedCount == Len(d.containers) - Len(filteredContainers)
    IN  IF resourceNamePanics(d) THEN R("panic", d)
        ELSE IF d.path = "notmap" THEN R("ok", d)
        ELSE IF d.path = "absent" \/ d.initContainers = "absent" THEN R("ok", d)
        ELSE IF d.initContainers # "list" THEN R("ok", d)
        ELSE IF removedCount > 0
        THEN IF Len(filteredContainers) = 0
             THEN R("ok", [d EXCEPT !.initContainers = "absent", !.containers = <<>>])
             ELSE R("ok", [d EXCEPT !.containers = filteredContainers])
        ELSE R("ok", d)

InitDeployment ==
    /\ doc \in Deployments
    /\ budget = MaxCalls
    /\ now = 0
    /\ configMaps = EmptyMap
    /\ last = NoneYet(doc)
    /\ prev = Summary(NoneYet(doc))
    /\ nops = 0
    /\ race = RaceIdle

\* the host runs the Deployment restore item action on the resource
RestoreDeployment ==
    /\ nops < budget
    /\ LET r == DeploymentExecute(doc)
       IN  /\ doc' = r.doc
           /\ last' = r
    /\ prev' = Summary(last)
    /\ nops' = nops + 1
    /\ UNCHANGED <<now, configMaps, budget, race>>

NextDeployment == RestoreDeployment

SpecDeployment == InitDeployment /\ [][NextDeployment]_vars

-----------------------------------------------------------------------------
(* C22 *)

\* container c is a map named wait-for-migration-job
IsMigrationContainer(c) == c.kind = "map" /\ c.name = "wait-for-migration-job"

\* the entries of list l that are not named wait-for-migration-job, in order
OtherContainers(l) == SelectSeq(l, LAMBDA c : ~IsMigrationContainer(c))

\* the Deployment filter returned a document for a Deployment with a list of
\* init containers
Filtered ==
    /\ last.op = "deployment"
    /\ last.outcome = "ok"
    /\ last.in.initContainers = "list"

\* C22 as stated: the document the Deployment filter returns holds the init
\* containers not named wait-for-migration-job, in their original order, and
\* whenever that list is empty the initContainers field is absent.
C22_EmptyListRemoved ==
    Filtered =>
        LET kept == OtherContainers(last.in.containers)
        IN  IF kept = <<>>
            THEN doc = [last.in EXCEPT !.initContainers = "absent", !.containers = <<>>]
            ELSE doc = [last.in EXCEPT !.containers = kept]

\* C22 amended: the same, with the initContainers field absent whenever at
\* least one entry was removed and none is left; a Deployment whose
\* initContainers list is empty to begin with keeps the empty list.
C22_EmptyListRemovedAfterRemoval ==
    Filtered =>
        LET kept == OtherContainers(last.in.containers)
        IN  IF kept = <<>> /\ last.in.containers # <<>>
            THEN doc = [last.in EXCEPT !.initContainers = "absent", !.containers = <<>>]
            ELSE doc = [last.in EXCEPT !.containers = kept]

\* the filter removed two of three init containers and left the third
C22_Witness ==
    /\ Filtered
    /\ Len(last.in.containers) = 3
    /\ IsMigrationContainer(last.in.containers[1])
    /\ last.in.containers[2].name = "other-init"
    /\ IsMigrationContainer(last.in.containers[3])
    /\ doc.initContainers = "list"
    /\ doc.containers = <<Container("map", "other-init")>>

-----------------------------------------------------------------------------
(* C23 *)

\* the entries of list l that are not maps or have no string name, in order
UnnamedContainers(l) == SelectSeq(l, LAMBDA c : c.kind # "map" \/ ~IsString(c.name))

\* C23: the Deployment filter never returns an error and always returns a
\* document: unchanged when initContainers is absent or not a list, unchanged
\* when no entry is named wait-for-migration-job, and with every entry that
\* is not a map, has no name or has a name that is not a string preserved.
C23_FilterNeverFails ==
    last.op = "deployment" =>
        /\ last.outcome = "ok"
        /\ last.err = ""
        /\ last.in.initContainers # "list" => doc = last.in
        /\ (\A i \in 1..Len(last.in.containers) : ~IsMigrationContainer(last.in.containers[i]))
              => doc = last.in
        /\ UnnamedContainers(doc.containers) = UnnamedContainers(last.in.containers)

-----------------------------------------------------------------------------
(* C24 *)

\* C24: after every successful restore rewrite, the ConfigMap
\* cnpg-velero-override of the namespace of the resource carries exactly the
\* keys write_to_server_name and read_from_server_name, the first equal to the
\* new identity this invocation wrote into the plugin parameters of the
\* returned document, the second equal to the original identity of its
\* externalClusters entry, and is annotated helm.sh/resource-policy: keep.
C24_ConfigMapContents ==
    Rewritten =>
        /\ last.in.namespace \in DOMAIN configMaps
        /\ LET cm == configMaps[last.in.namespace]
           IN  /\ cm.name = "cnpg-velero-override"
               /\ DOMAIN cm.data = {"write_to_server_name", "read_from_server_name"}
               /\ cm.data["write_to_server_name"] = last.newServerName
               /\ \A i \in 1..Len(doc.pluginsList) :
                     DeclaresServerName(last.in.pluginsList[i]) =>
                        doc.pluginsList[i].params["serverName"] = cm.data["write_to_server_name"]
               /\ cm.data["read_from_server_name"] = last.in.ann[AnnotationServerName]
               /\ cm.data["read_from_server_name"] = doc.externalClusters.list[1].serverName
               /\ "helm.sh/resource-policy" \in DOMAIN cm.annotations
               /\ cm.annotations["helm.sh/resource-policy"] = "keep"

\* a second restore of the resource, a second later, left the ConfigMap with
\* the identity it minted and not the one of the first
C24_Witness ==
    /\ Rewritten
    /\ nops >= 2
    /\ prev.op = "restore" /\ prev.outcome = "ok"
    /\ "ns" \in DOMAIN configMaps
    /\ configMaps["ns"].data["write_to_server_name"] = "pg-20251013-135401"
    /\ configMaps["ns"].data["read_from_server_name"] = "cnpg-1"
    /\ Len(doc.pluginsList) >= 1
    /\ HasParams(doc.pluginsList[1])
    /\ Lookup(doc.pluginsList[1].params, "serverName") = "pg-20251013-135401"

-----------------------------------------------------------------------------
(* C25 *)

\* the second a clock reading falls in
SecondOf(t) == t \div TicksPerSecond

\* the step generates an identity for the base name of the call before
GenerateAgain ==
    /\ nops' = nops + 1
    /\ last.op = "generateNewServerName"
    /\ last'.op = "generateNewServerName"
    /\ last'.arg = last.arg

\* C25: the generated identity is the base name, a dash and the clock reading
\* as YYYYMMDD-HHMMSS, and two calls for the same base name return the same
\* identity if and only if their clock readings fall in the same second.
C25_SameIdentityIffSameSecond ==
    [][GenerateAgain =>
          /\ Len(last'.value) = Len(last'.arg) + 16
          /\ SubSeq(last'.value, 1, Len(last'.arg) + 1) = last'.arg \o "-"
          /\ (last'.value = last.value) <=> (SecondOf(now') = SecondOf(now))]_vars

\* two calls for the same base name a second apart returned different
\* identities
C25_Witness ==
    /\ nops = 2
    /\ prev.op = "generateNewServerName"
    /\ last.op = "generateNewServerName"
    /\ last.arg = "pg"
    /\ last.value = "pg-20251013-135401"
    /\ now = TicksPerSecond

-----------------------------------------------------------------------------
(* C26 *)

\* plugin block b without its serverName parameter
WithoutServerName(b) ==
    [b EXCEPT !.params = [k \in DOMAIN b.params \ {"serverName"} |-> b.params[k]]]

\* C26: after every successful restore rewrite the annotations, the name, the
\* namespace and the apiVersion of the returned document, and every spec
\* field other than the serverName of the plugin blocks, externalClusters and
\* bootstrap, each block's barmanObjectName included, are those of the
\* document the invocation received.
C26_RestoreFrame ==
    Rewritten =>
        /\ doc.metadata = last.in.metadata
        /\ doc.annotations = last.in.annotations
        /\ doc.ann = last.in.ann
        /\ doc.name = last.in.name
        /\ doc.namespace = last.in.namespace
        /\ doc.apiVersion = last.in.apiVersion
        /\ doc.spec = last.in.spec
        /\ doc.instances = last.in.instances
        /\ doc.plugins = last.in.plugins
        /\ Len(doc.pluginsList) = Len(last.in.pluginsList)
        /\ \A i \in 1..Len(doc.pluginsList) :
              /\ WithoutServerName(doc.pluginsList[i]) = WithoutServerName(last.in.pluginsList[i])
              /\ DeclaresServerName(doc.pluginsList[i]) <=> DeclaresServerName(last.in.pluginsList[i])

\* a restore rewrote a resource of two storage blocks that carried both
\* annotations: the annotations and both barmanObjectName parameters are in
\* the returned document, next to the rotated serverName
C26_Witness ==
    /\ Rewritten
    /\ doc.ann[AnnotationServerName] = "cnpg-1"
    /\ AnnotationCurrentBackupID \in DOMAIN doc.ann
    /\ Len(doc.pluginsList) = 2
    /\ Lookup(doc.pluginsList[1].params, "barmanObjectName") = "store-a"
    /\ Lookup(doc.pluginsList[2].params, "barmanObjectName") = "store-b"
    /\ Lookup(doc.pluginsList[2].params, "serverName") = last.newServerName
    /\ Lookup(last.in.pluginsList[2].params, "serverName") = "cnpg-2"
    /\ doc.instances = "3"
    /\ doc.bootstrap # last.in.bootstrap

-----------------------------------------------------------------------------
(* C27 *)

\* plugin block b carries a non-empty string serverName
Populated(b) ==
    HasParams(b) /\ IsString(Lookup(b.params, "serverName")) /\ b.params["serverName"] # ""

\* the position of the first populated block of list l, 0 if there is none
FirstPopulated(l) ==
    IF \E i \in 1..Len(l) : Populated(l[i])
    THEN CHOOSE i \in 1..Len(l) : Populated(l[i]) /\ \A j \in 1..(i - 1) : ~Populated(l[j])
    ELSE 0

\* a block before the first populated one declares a serverName that is
\* empty or is not a string
UnpopulatedBefore(l) ==
    /\ FirstPopulated(l) > 1
    /\ \E j \in 1..(FirstPopulated(l) - 1) : DeclaresServerName(l[j])

\* C27: a backup of a resource whose plugin list has a block with an empty or
\* non-string serverName before the first block with a non-empty string
\* serverName extracts the serverName of the latter and stamps it as the
\* velero-cnpg/serverName annotation.
C27_FirstPopulatedMatch ==
    ( /\ last.op = "backup"
      /\ ~resourceNamePanics(last.in)
      /\ last.in.metadata = "map"
      /\ last.in.spec = "map"
      /\ last.in.plugins = "list"
      /\ UnpopulatedBefore(last.in.pluginsList) )
    => LET l == last.in.pluginsList
           populated == l[FirstPopulated(l)].params["serverName"]
       IN  /\ last.outcome = "ok"
           /\ last.serverName = populated
           /\ Lookup(doc.ann, AnnotationServerName) = populated

-----------------------------------------------------------------------------
(* C28 *)

\* C28: a restore invocation that returns an error has performed no upsert
\* of the ConfigMap, and an invocation that has performed the upsert returns
\* success.
C28_ErrorMeansNoUpsert ==
    last.op = "restore" =>
        /\ last.outcome = "error" => last.upsert # "applied"
        /\ last.upsert = "applied" => last.outcome = "ok"

\* C28, amended: a restore invocation that returns an error has left the
\* ConfigMaps as they were, unless the error is the failure the upsert call
\* itself reported after the server had applied it; an invocation whose
\* upsert call returned without error returns success with the rewritten
\* document.
C28_ErrorMeansNoUpsertUnlessLateFailure ==
    [][RestoreStep =>
          /\ (last'.outcome = "error" /\ last'.api # "timeoutApplied") =>
                (last'.upsert # "applied" /\ configMaps' = configMaps)
          /\ (last'.outcome = "error" /\ last'.err # "failed to create/update ConfigMap") =>
                (last'.upsert = "none" /\ configMaps' = configMaps)
          /\ (last'.upsert = "applied" /\ last'.api = "ok") =>
                /\ last'.outcome = "ok"
                /\ ~EphemeralLeft(doc')
                /\ doc'.externalClusters.present
                /\ doc'.bootstrap.kind = "recovery"]_vars

\* a restore of a resource none of whose plugin blocks declares a serverName
\* upserted the ConfigMap and returned the rewritten document
C28_Witness ==
    /\ last.op = "restore"
    /\ last.api = "ok"
    /\ last.upsert = "applied"
    /\ last.outcome = "ok"
    /\ \A i \in 1..Len(last.in.pluginsList) : ~DeclaresServerName(last.in.pluginsList[i])
    /\ last.in.namespace \in DOMAIN configMaps
    /\ doc.bootstrap.kind = "recovery"
    /\ last.in.bootstrap.kind = "initdb"

-----------------------------------------------------------------------------
(* C29 *)

\* the resource carries both identity annotations
HasBothAnnotations(d) ==
    /\ d.metadata = "map"
    /\ d.annotations = "map"
    /\ AnnotationServerName \in DOMAIN d.ann
    /\ AnnotationCurrentBackupID \in DOMAIN d.ann

\* the resource carries neither identity annotation
HasNoIdentityAnnotation(d) ==
    \/ d.metadata # "map"
    \/ d.annotations # "map"
    \/ /\ AnnotationServerName \notin DOMAIN d.ann
       /\ AnnotationCurrentBackupID \notin DOMAIN d.ann

\* the backup invocation of the step wrote a new value of the serverName
\* annotation, on a resource that carried the pair of an earlier backup or
\* no identity annotation at all
StampsServerName ==
    /\ BackupStep
    /\ last'.outcome = "ok"
    /\ last'.serverName # ""
    /\ \/ HasNoIdentityAnnotation(doc)
       \/ HasBothAnnotations(doc) /\ doc.ann[AnnotationServerName] # last'.serverName

\* C29: whenever a backup invocation has written a new serverName annotation
\* and the returned document also carries the current-backup-id annotation,
\* the backup id is the one the resolver returned in that same invocation: a
\* backup id stamped by an earlier backup does not survive next to it.
C29_BackupIDOfSameBackup ==
    [][(StampsServerName /\ HasBothAnnotations(doc')) =>
          /\ last'.lookup = "found"
          /\ doc'.ann[AnnotationCurrentBackupID] = last'.backupID]_vars

-----------------------------------------------------------------------------
(* C30 *)

\* C30: every Execute invocation on any document ends with a returned
\* document or with an error value, never abnormally; a missing or
\* non-string metadata.name or metadata.namespace gives an error or a no-op.
C30_NoAbnormalTermination ==
    last.op \in {"backup", "restore", "deployment"} => last.outcome \in {"ok", "error"}

====
